---------------------------- MODULE Spec2Model ----------------------------
(***************************************************************************)
(* Model of the receipt processor of src/app/app.py: the validator         *)
(* (validateInput), the scorer (calculatePoint), the in-memory store        *)
(* receiptPoints and the two request handlers processReceipt / getPoints.   *)
(*                                                                          *)
(* Text is modelled as a sequence of one-character strings.  Python's       *)
(* unbounded int is modelled as a natural number in limbs (base 2^15,       *)
(* least significant first, no leading zero limb), Python's float as an     *)
(* IEEE-754 binary64 value m * 2^e with round-to-nearest-even.              *)
(***************************************************************************)
EXTENDS Integers, Sequences, FiniteSets, TLC

(***************************************************************************)
(* Characters and the classes the regular expressions and str methods use  *)
(***************************************************************************)
Digits == {"0", "1", "2", "3", "4", "5", "6", "7", "8", "9"}

Letters == {"a", "b", "c", "d", "e", "f", "g", "h", "i", "j", "k", "l", "m",
            "n", "o", "p", "q", "r", "s", "t", "u", "v", "w", "x", "y", "z",
            "A", "B", "C", "D", "E", "F", "G", "H", "I", "J", "K", "L", "M",
            "N", "O", "P", "Q", "R", "S", "T", "U", "V", "W", "X", "Y", "Z"}

Whitespace == {" ", "\t", "\n", "\r"}

\* str.isalnum() on one character: a letter or a digit
IsAlnum(ch) == ch \in Letters \/ ch \in Digits

\* \w : alphanumeric or underscore
IsWord(ch) == IsAlnum(ch) \/ ch = "_"

\* \s
IsSpace(ch) == ch \in Whitespace

DigitVal(ch) ==
    CASE ch = "0" -> 0 [] ch = "1" -> 1 [] ch = "2" -> 2 [] ch = "3" -> 3
      [] ch = "4" -> 4 [] ch = "5" -> 5 [] ch = "6" -> 6 [] ch = "7" -> 7
      [] ch = "8" -> 8 [] ch = "9" -> 9

AllIn(s, Class(_)) == \A i \in 1..Len(s) : Class(s[i])

\* s[a..b] (1-based, inclusive), empty when b < a
Slice(s, a, b) == [i \in 1..(IF b >= a THEN b - a + 1 ELSE 0) |-> s[a + i - 1]]

\* In a Python pattern "$" also matches just before a newline that ends the
\* string, so re.match(r"^P$", s) accepts s when P spans s or s minus that "\n".
DollarMatch(s, P(_)) ==
    \/ P(s)
    \/ Len(s) > 0 /\ s[Len(s)] = "\n" /\ P(Slice(s, 1, Len(s) - 1))

\* str.strip(): leading and trailing whitespace removed
RECURSIVE LStrip(_)
LStrip(s) == IF s # <<>> /\ IsSpace(Head(s)) THEN LStrip(Tail(s)) ELSE s

RECURSIVE RStrip(_)
RStrip(s) ==
    IF s # <<>> /\ IsSpace(s[Len(s)]) THEN RStrip(Slice(s, 1, Len(s) - 1)) ELSE s

Strip(s) == RStrip(LStrip(s))

\* Position of the last "." of s, 0 when there is none
LastDot(s) ==
    LET dots == {i \in 1..Len(s) : s[i] = "."}
    IN  IF dots = {} THEN 0 ELSE CHOOSE i \in dots : \A j \in dots : j <= i

(***************************************************************************)
(* Python int: unbounded naturals in limbs                                 *)
(***************************************************************************)
Base == 2 ^ 15

RECURSIVE BigNorm(_)
BigNorm(a) ==
    IF a # <<>> /\ a[Len(a)] = 0 THEN BigNorm(Slice(a, 1, Len(a) - 1)) ELSE a

RECURSIVE BigFromInt(_)
BigFromInt(n) == IF n = 0 THEN <<>> ELSE <<n % Base>> \o BigFromInt(n \div Base)

RECURSIVE BigAddC(_, _, _)
BigAddC(a, b, c) ==
    IF a = <<>> /\ b = <<>>
    THEN IF c = 0 THEN <<>> ELSE <<c>>
    ELSE LET x == IF a = <<>> THEN 0 ELSE Head(a)
             y == IF b = <<>> THEN 0 ELSE Head(b)
             t == x + y + c
         IN  <<t % Base>> \o BigAddC(IF a = <<>> THEN a ELSE Tail(a),
                                     IF b = <<>> THEN b ELSE Tail(b),
                                     t \div Base)

BigAdd(a, b) == BigAddC(a, b, 0)

BigAddInt(a, n) == BigAdd(a, BigFromInt(n))

\* a * k + c for 0 <= k, c < Base
RECURSIVE BigMulSmallC(_, _, _)
BigMulSmallC(a, k, c) ==
    IF a = <<>>
    THEN IF c = 0 THEN <<>> ELSE <<c>>
    ELSE LET t == Head(a) * k + c
         IN  <<t % Base>> \o BigMulSmallC(Tail(a), k, t \div Base)

BigMulSmall(a, k) == BigNorm(BigMulSmallC(a, k, 0))

RECURSIVE BigMul(_, _)
BigMul(a, b) ==
    IF a = <<>> \/ b = <<>> THEN <<>>
    ELSE BigNorm(BigAdd(BigMulSmall(a, Head(b)), <<0>> \o BigMul(a, Tail(b))))

\* Quotient and remainder of a by a small d (0 < d < Base), from the top limb
RECURSIVE BigDivSmallR(_, _, _)
BigDivSmallR(a, d, r) ==
    IF a = <<>> THEN [q |-> <<>>, r |-> r]
    ELSE LET n   == Len(a)
             t   == r * Base + a[n]
             low == BigDivSmallR(Slice(a, 1, n - 1), d, t % d)
         IN  [q |-> Append(low.q, t \div d), r |-> low.r]

BigDivSmall(a, d) ==
    LET res == BigDivSmallR(a, d, 0) IN [q |-> BigNorm(res.q), r |-> res.r]

BigIsOdd(a) == a # <<>> /\ a[1] % 2 = 1

RECURSIVE SmallBitLen(_)
SmallBitLen(n) == IF n = 0 THEN 0 ELSE 1 + SmallBitLen(n \div 2)

LimbBits == SmallBitLen(Base - 1)

BigBitLen(a) ==
    IF a = <<>> THEN 0 ELSE (Len(a) - 1) * LimbBits + SmallBitLen(a[Len(a)])

BigShiftLeft(a, n) ==
    IF a = <<>> THEN <<>>
    ELSE [i \in 1..(n \div LimbBits) |-> 0] \o BigMulSmall(a, 2 ^ (n % LimbBits))

BigShiftRight(a, n) ==
    IF n \div LimbBits >= Len(a) THEN <<>>
    ELSE BigDivSmall(Slice(a, n \div LimbBits + 1, Len(a)), 2 ^ (n % LimbBits)).q

\* The decimal digits ds (most significant first) as a number
RECURSIVE BigFromDigits(_, _)
BigFromDigits(ds, acc) ==
    IF ds = <<>> THEN BigNorm(acc)
    ELSE BigFromDigits(Tail(ds), BigMulSmallC(acc, 10, DigitVal(Head(ds))))

\* The value of a as a TLA+ integer (only for values below 2^31)
RECURSIVE BigToInt(_)
BigToInt(a) == IF a = <<>> THEN 0 ELSE Head(a) + Base * BigToInt(Tail(a))


(***************************************************************************)
(* Python float: IEEE-754 binary64, value m * 2^e, or infinity             *)
(***************************************************************************)
MantissaBits == 53

MaxExponent == 1024

\* Extra binary places carried through the division of a decimal parse: the
\* divisor is below 2^7, so the quotient has more than MantissaBits + 1 bits
GuardBits == MantissaBits + 8

Finite(m, e) == [inf |-> FALSE, m |-> m, e |-> e]

Infinity == [inf |-> TRUE, m |-> <<>>, e |-> 0]

\* The double nearest to q * 2^e (plus, when sticky, a fraction of one unit
\* of q), ties to even; infinity at or above 2^MaxExponent
RoundToDouble(q, e, sticky) ==
    LET drop == BigBitLen(q) - MantissaBits
    IN  IF drop <= 0
        THEN IF BigBitLen(q) + e > MaxExponent THEN Infinity ELSE Finite(q, e)
        ELSE LET m0   == BigShiftRight(q, drop)
                 hq   == BigShiftRight(q, drop - 1)
                 half == BigIsOdd(hq)
                 rest == sticky \/ BigShiftLeft(hq, drop - 1) # q
                 up   == half /\ (rest \/ BigIsOdd(m0))
                 m1   == IF up THEN BigAddInt(m0, 1) ELSE m0
                 over == BigBitLen(m1) > MantissaBits
                 m    == IF over THEN BigShiftRight(m1, 1) ELSE m1
                 ex   == IF over THEN e + drop + 1 ELSE e + drop
             IN  IF BigBitLen(m) + ex > MaxExponent THEN Infinity ELSE Finite(m, ex)

\* float() of the decimal n / d for a small d: correctly rounded
FloatOfRatio(n, d) ==
    IF n = <<>> THEN Finite(<<>>, 0)
    ELSE LET qr == BigDivSmall(BigShiftLeft(n, GuardBits), d)
         IN  RoundToDouble(qr.q, 0 - GuardBits, qr.r # 0)

\* x * y in binary64
FloatMul(x, y) ==
    IF x.inf \/ y.inf THEN Infinity
    ELSE RoundToDouble(BigMul(x.m, y.m), x.e + y.e, FALSE)

\* math.ceil(x): raises OverflowError on infinity
FloatCeil(x) ==
    IF x.inf THEN [raised |-> TRUE, value |-> <<>>]
    ELSE IF x.e >= 0 THEN [raised |-> FALSE, value |-> BigShiftLeft(x.m, x.e)]
    ELSE LET q == BigShiftRight(x.m, 0 - x.e)
         IN  [raised |-> FALSE,
              value  |-> IF BigShiftLeft(q, 0 - x.e) # x.m THEN BigAddInt(q, 1) ELSE q]

\* The literal 0.2
PointTwo == FloatOfRatio(BigFromInt(2), 10)

\* float(s) for s = digits "." two digits, possibly followed by whitespace
\* (float() strips it): the double nearest to cents / 100
PriceCents(s) ==
    LET t == Strip(s)
    IN  BigFromDigits(Slice(t, 1, Len(t) - 3) \o Slice(t, Len(t) - 1, Len(t)), <<>>)

FloatOfPrice(s) == FloatOfRatio(PriceCents(s), 100)


\* int(s) for a short text: surrounding whitespace stripped, an optional sign,
\* then decimal digits only; anything else raises ValueError
RECURSIVE DigitsToInt(_, _)
DigitsToInt(ds, acc) ==
    IF ds = <<>> THEN acc ELSE DigitsToInt(Tail(ds), acc * 10 + DigitVal(Head(ds)))

IntParse(s) ==
    LET t      == Strip(s)
        signed == t # <<>> /\ Head(t) \in {"-", "+"}
        body   == IF signed THEN Tail(t) ELSE t
    IN  IF body = <<>> \/ ~AllIn(body, LAMBDA ch : ch \in Digits)
        THEN [raised |-> TRUE, value |-> 0]
        ELSE [raised |-> FALSE,
              value  |-> IF signed /\ Head(t) = "-" THEN 0 - DigitsToInt(body, 0)
                         ELSE DigitsToInt(body, 0)]

(***************************************************************************)
(* The validator                                                           *)
(***************************************************************************)
\* ^[\w\s\-&]+$
RetailerMatch(s) ==
    s # <<>> /\ AllIn(s, LAMBDA ch : IsWord(ch) \/ IsSpace(ch) \/ ch \in {"-", "&"})

\* ^[\w\s\-]+$
DescriptionMatch(s) ==
    s # <<>> /\ AllIn(s, LAMBDA ch : IsWord(ch) \/ IsSpace(ch) \/ ch = "-")

\* \d+\.\d{2} spanning s
DecimalBody(s) ==
    /\ Len(s) >= 4
    /\ s[Len(s) - 2] = "."
    /\ \A i \in 1..Len(s) : i # Len(s) - 2 => s[i] \in Digits

\* ^\d+\.\d{2}$
DecimalMatch(s) == DollarMatch(s, DecimalBody)

\* ([01]?[0-9]|2[0-3]):([0-5][0-9]) spanning s
TimeBody(s) ==
    LET n == Len(s)
    IN  /\ n \in {4, 5}
        /\ s[n - 2] = ":"
        /\ s[n - 1] \in {"0", "1", "2", "3", "4", "5"}
        /\ s[n] \in Digits
        /\ \/ n = 4 /\ s[1] \in Digits
           \/ n = 5 /\ s[1] \in {"0", "1"} /\ s[2] \in Digits
           \/ n = 5 /\ s[1] = "2" /\ s[2] \in {"0", "1", "2", "3"}

\* ^([01]?[0-9]|2[0-3]):([0-5][0-9])$
TimeMatch(s) == DollarMatch(s, TimeBody)

IsLeap(y) == y % 4 = 0 /\ (y % 100 # 0 \/ y % 400 = 0)

DaysInMonth(y, m) ==
    IF m = 2 THEN (IF IsLeap(y) THEN 29 ELSE 28)
    ELSE IF m \in {4, 6, 9, 11} THEN 30 ELSE 31

\* Length of the text the strptime directive %m takes at position i of s
\* (1[0-2]|0[1-9]|[1-9], tried in that order), 0 when it does not match
MonthToken(s, i) ==
    LET two == i + 1 <= Len(s)
    IN  IF two /\ s[i] = "1" /\ s[i + 1] \in {"0", "1", "2"} THEN 2
        ELSE IF two /\ s[i] = "0" /\ s[i + 1] \in Digits \ {"0"} THEN 2
        ELSE IF i <= Len(s) /\ s[i] \in Digits \ {"0"} THEN 1
        ELSE 0

\* The same for %d: 3[0-1]|[1-2]\d|0[1-9]|[1-9]| [1-9]
DayToken(s, i) ==
    LET two == i + 1 <= Len(s)
    IN  IF two /\ s[i] = "3" /\ s[i + 1] \in {"0", "1"} THEN 2
        ELSE IF two /\ s[i] \in {"1", "2"} /\ s[i + 1] \in Digits THEN 2
        ELSE IF two /\ s[i] = "0" /\ s[i + 1] \in Digits \ {"0"} THEN 2
        ELSE IF i <= Len(s) /\ s[i] \in Digits \ {"0"} THEN 1
        ELSE IF two /\ s[i] = " " /\ s[i + 1] \in Digits \ {"0"} THEN 2
        ELSE 0

\* datetime.strptime(s, "%Y-%m-%d"): the pattern \d\d\d\d-%m-%d must match
\* at the start and take the whole text, and the fields must name a date of
\* year 1 or later
ParseDate(s) ==
    LET bad   == [ok |-> FALSE, year |-> 0, month |-> 0, day |-> 0]
        mlen  == MonthToken(s, 6)
        dpos  == 6 + mlen + 1
        dlen  == DayToken(s, dpos)
        year  == DigitsToInt(Slice(s, 1, 4), 0)
        month == DigitsToInt(Slice(s, 6, 5 + mlen), 0)
        day   == IntParse(Slice(s, dpos, dpos + dlen - 1)).value
    IN  IF Len(s) < 5 \/ ~AllIn(Slice(s, 1, 4), LAMBDA ch : ch \in Digits) \/ s[5] # "-"
        THEN bad
        ELSE IF mlen = 0 \/ Len(s) < dpos \/ s[dpos - 1] # "-" THEN bad
        ELSE IF dlen = 0 \/ dpos + dlen - 1 # Len(s) THEN bad
        ELSE IF year < 1 \/ day > DaysInMonth(year, month) THEN bad
        ELSE [ok |-> TRUE, year |-> year, month |-> month, day |-> day]

Accepted == [code |-> 200, detail |-> "", value |-> <<>>]

BadRequest(detail, value) == [code |-> 400, detail |-> detail, value |-> value]

RECURSIVE ValidatePrices(_)
ValidatePrices(items) ==
    IF items = <<>> THEN Accepted
    ELSE IF ~DecimalMatch(Head(items).price)
    THEN BadRequest("Invalid item price: ", Head(items).price)
    ELSE ValidatePrices(Tail(items))

RECURSIVE ValidateDescriptionsFirst(_, _)
ValidateDescriptionsFirst(items, all) ==
    IF items = <<>> THEN ValidatePrices(all)
    ELSE IF ~DescriptionMatch(Head(items).shortDescription)
    THEN BadRequest("Invalid item description: ", Head(items).shortDescription)
    ELSE ValidateDescriptionsFirst(Tail(items), all)

ValidateItemsDescriptionsFirst(items) == ValidateDescriptionsFirst(items, items)

\* The first failure among the items, each item's description checked before
\* its price, items in order; Accepted when every item passes
RECURSIVE ValidateItems(_)
ValidateItems(items) ==
    IF items = <<>> THEN Accepted
    ELSE IF ~DescriptionMatch(Head(items).shortDescription)
    THEN BadRequest("Invalid item description: ", Head(items).shortDescription)
    ELSE IF ~DecimalMatch(Head(items).price)
    THEN BadRequest("Invalid item price: ", Head(items).price)
    ELSE ValidateItems(Tail(items))

\* validateInput: the HTTPException it raises, or Accepted
validateInput(receipt) ==
    IF ~RetailerMatch(receipt.retailer)
    THEN BadRequest("Invalid retailer format.", <<>>)
    ELSE IF ~ParseDate(receipt.purchaseDate).ok
    THEN BadRequest("Invalid purchaseDate format. Expected YYYY-MM-DD.", <<>>)
    ELSE IF ~TimeMatch(receipt.purchaseTime)
    THEN BadRequest("Invalid purchaseTime format. Expected HH:MM.", <<>>)
    ELSE IF receipt.items = <<>>
    THEN BadRequest("The receipt must have at least one item.", <<>>)
    ELSE IF ValidateItems(receipt.items).code # 200
    THEN ValidateItems(receipt.items)
    ELSE IF ~DecimalMatch(receipt.total)
    THEN BadRequest("Invalid total amount format.", <<>>)
    ELSE Accepted

(***************************************************************************)
(* The scorer                                                              *)
(***************************************************************************)
\* Number of characters of the retailer name with ch.isalnum()
AlnumCount(retailer) == Cardinality({i \in 1..Len(retailer) : IsAlnum(retailer[i])})

\* purchaseDate[-2:]
LastTwo(s) == Slice(s, IF Len(s) > 2 THEN Len(s) - 1 ELSE 1, Len(s))

\* purchaseTime[:2]
FirstTwo(s) == Slice(s, 1, IF Len(s) > 2 THEN 2 ELSE Len(s))

\* total.split('.')[-1]
AfterLastDot(s) == Slice(s, LastDot(s) + 1, Len(s))

IsOddDayTruncated(day) ==
    (IF day < 0 THEN 0 - ((0 - day) % 2) ELSE day % 2) = 1

\* day % 2 == 1 (Python's %: the result has the sign of the divisor)
IsOddDay(day) == day % 2 = 1

\* The odd-day rule: day = int(purchaseDate[-2:]), 6 points when day is odd;
\* raised when int() raises
OddDayPoints(purchaseDate) ==
    LET day == IntParse(LastTwo(purchaseDate))
    IN  [raised |-> day.raised,
         points |-> IF ~day.raised /\ IsOddDay(day.value) THEN 6 ELSE 0]

\* 14 <= time < 16
InAfternoon(time) == 14 <= time /\ time < 16

\* (len(items) // 2) * 5
PairPoints(n) == (n \div 2) * 5

\* len(item.shortDescription.strip()) % 3 == 0
DescriptionEarns(item) == Len(Strip(item.shortDescription)) % 3 = 0

\* math.ceil(float(item.price) * 0.2)
PriceBonus(price) == FloatCeil(FloatMul(FloatOfPrice(price), PointTwo))

\* One pass of the loop body: what the item adds to points; raised when
\* math.ceil raises
ItemBonus(item) ==
    IF DescriptionEarns(item) THEN PriceBonus(item.price)
    ELSE [raised |-> FALSE, value |-> <<>>]

\* The loop over the items, adding to points
RECURSIVE ItemLoop(_, _)
ItemLoop(items, points) ==
    IF items = <<>> THEN [raised |-> FALSE, points |-> points]
    ELSE IF ItemBonus(Head(items)).raised THEN [raised |-> TRUE, points |-> points]
    ELSE ItemLoop(Tail(items), BigAdd(points, ItemBonus(Head(items)).value))

TotalPointsNotStacked(cents) ==
    IF cents = 0 THEN 50 ELSE IF cents % 25 = 0 THEN 25 ELSE 0

\* cents == 0 gives 50, cents % 25 == 0 gives 25 more
TotalPoints(cents) ==
    (IF cents = 0 THEN 50 ELSE 0) + (IF cents % 25 = 0 THEN 25 ELSE 0)

\* What calculatePoint computes up to its last line: the points it is about to
\* store, or the exception that ends it before anything is stored
ComputePoints(receipt) ==
    LET failed(error) == [raised |-> TRUE, error |-> error, points |-> <<>>]
        p1    == BigFromInt(AlnumCount(receipt.retailer))
        day   == OddDayPoints(receipt.purchaseDate)
        p2    == BigAddInt(p1, day.points)
        time  == IntParse(FirstTwo(receipt.purchaseTime))
        p3    == IF InAfternoon(time.value) THEN BigAddInt(p2, 10) ELSE p2
        p4    == BigAddInt(p3, PairPoints(Len(receipt.items)))
        loop  == ItemLoop(receipt.items, p4)
        cents == IntParse(AfterLastDot(receipt.total))
    IN  IF day.raised THEN failed("ValueError")
        ELSE IF time.raised THEN failed("ValueError")
        ELSE IF loop.raised THEN failed("OverflowError")
        ELSE IF cents.raised THEN failed("ValueError")
        ELSE [raised |-> FALSE, error |-> "",
              points |-> BigAddInt(loop.points, TotalPoints(cents.value))]

StorePointsUnderOneKey(store, uniqueId, points) ==
    [id \in DOMAIN store \cup {1} |-> IF id = 1 THEN points ELSE store[id]]

\* receiptPoints[uniqueId] = points
StorePoints(store, uniqueId, points) ==
    [id \in DOMAIN store \cup {uniqueId} |->
        IF id = uniqueId THEN points ELSE store[id]]

(***************************************************************************)
(* Inputs                                                                  *)
(***************************************************************************)
\* Longest item list of a receipt
MaxItems == 2

\* Requests (submits and queries) one run of the service starts
MaxRequests == 3

Item(description, price) == [shortDescription |-> description, price |-> price]

Receipt(retailer, purchaseDate, purchaseTime, items, total) ==
    [retailer |-> retailer, purchaseDate |-> purchaseDate,
     purchaseTime |-> purchaseTime, items |-> items, total |-> total]

Pepsi == Item(<<"P", "e", "p", "s", "i", " ", "-", " ", "1", "2", "-", "o", "z">>, <<"1", ".", "2", "5">>)

Pizza == Item(<<"E", "m", "i", "l", "s", " ", "C", "h", "e", "e", "s", "e", " ", "P", "i", "z", "z", "a">>, <<"1", "2", ".", "2", "5">>)

Klarbrunn == Item(<<" ", " ", " ", "K", "l", "a", "r", "b", "r", "u", "n", "n", " ", "1", "2", "-", "P", "K", " ", "1", "2", " ", "F", "L", " ", "O", "Z", " ", " ">>, <<"1", "2", ".", "0", "0">>)

Blank == Item(<<" ", " ", " ">>, <<"6", ".", "4", "9">>)

Free == Item(<<"a", "b", "c">>, <<"0", ".", "0", "0">>)

BadDescription == Item(<<"D", "o", "r", "i", "t", "o", "s", " ", "&", " ", "D", "i", "p">>, <<"3", ".", "3", "5">>)

BadPrice == Item(<<"G", "a", "t", "o", "r", "a", "d", "e">>, <<"2", ".", "2">>)

Costly == Item(<<"T", "V", "-", "s", "e", "t">>, <<"2", "0", "0", "0", "0", "0", "0", "0", "0", "0", "0", "0", "0", "0", "0", ".", "0", "1">>)

CoreItems == {Pepsi, Pizza, Blank, BadDescription, BadPrice, Costly}

\* Every sequence over S of length at most n
RECURSIVE SeqsUpTo(_, _)
SeqsUpTo(S, n) ==
    IF n = 0 THEN {<<>>}
    ELSE LET shorter == SeqsUpTo(S, n - 1)
         IN  shorter \cup {Append(q, x) : q \in shorter, x \in S}

CoreRetailers == {<<"T", "a", "r", "g", "e", "t">>,
                 <<"A", "_", "b", "-", "7", " ", "&">>,
                 <<"B", "a", "d", "!">>}

CoreDates == {<<"2", "0", "2", "2", "-", "0", "1", "-", "0", "1">>,
             <<"2", "0", "2", "2", "-", "0", "3", "-", "2", "0">>,
             <<"2", "0", "2", "3", "-", "0", "2", "-", "3", "0">>,
             <<"2", "0", "2", "2", "-", "1", "-", "1">>}

CoreTimes == {<<"1", "3", ":", "0", "1">>,
             <<"1", "4", ":", "3", "3">>,
             <<"9", ":", "0", "0">>,
             <<"2", "5", ":", "0", "0">>}

CoreTotals == {<<"1", ".", "2", "5">>,
              <<"1", "0", "0", ".", "0", "0">>,
              <<"3", "5", ".", "3", "5">>,
              <<"1", ".", "2">>}

\* The receipts that combine several fields, valid and invalid
CoreReceipts ==
    {Receipt(r, d, t, i, m) : r \in CoreRetailers, d \in CoreDates, t \in CoreTimes,
                              i \in SeqsUpTo(CoreItems, MaxItems), m \in CoreTotals}

\* The example receipt of the specification: 37 points
Example == Receipt(<<"T", "a", "r", "g", "e", "t">>, <<"2", "0", "2", "2", "-", "0", "1", "-", "0", "1">>, <<"1", "3", ":", "0", "1">>, <<Pepsi>>, <<"1", ".", "2", "5">>)

YearTexts == {<<"2", "0", "2", "2">>,
             <<"2", "0", "2", "4">>,
             <<"0", "0", "0", "0">>,
             <<"2", "0", "2", "3">>,
             <<"1", "9", "0", "0">>}

MonthTexts == {<<"0", "1">>,
              <<"1">>,
              <<"0", "2">>,
              <<"2">>,
              <<"1", "2">>,
              <<"1", "3">>,
              <<"0", "0">>,
              <<"4">>}

DayTexts == {<<"0", "1">>,
            <<"1">>,
            <<" ", "1">>,
            <<"0", "2">>,
            <<"2">>,
            <<"2", "8">>,
            <<"2", "9">>,
            <<"3", "0">>,
            <<"3", "1">>,
            <<"3", "2">>,
            <<"0">>,
            <<"0", "0">>,
            <<"1", "0">>,
            <<"1", "5">>}

\* The example with every purchaseDate built from the texts above
DateReceipts ==
    {[Example EXCEPT !.purchaseDate = y \o <<"-">> \o m \o <<"-">> \o d] :
        y \in YearTexts, m \in MonthTexts, d \in DayTexts}
    \cup {[Example EXCEPT !.purchaseDate = d] : d \in {<<"2", "0", "2", "2", "0", "1", "0", "1">>,
                                 <<"2", "0", "2", "2", "-", "0", "1", "-", "0", "1", "\n">>,
                                 <<"2", "0", "2", "2", "-", "0", "1">>,
                                 <<"0", "1", "-", "0", "1", "-", "2", "0", "2", "2">>,
                                 <<>>}}

HourTexts == {<<"0">>,
             <<"9">>,
             <<"0", "0">>,
             <<"0", "9">>,
             <<"1", "3">>,
             <<"1", "4">>,
             <<"1", "5">>,
             <<"1", "6">>,
             <<"2", "3">>,
             <<"2", "4">>,
             <<"2", "5">>}

MinuteTexts == {<<"0", "0">>,
               <<"0", "1">>,
               <<"3", "3">>,
               <<"5", "9">>,
               <<"6", "0">>}

\* The example with every purchaseTime built from the texts above
TimeReceipts ==
    {[Example EXCEPT !.purchaseTime = h \o <<":">> \o m \o e] :
        h \in HourTexts, m \in MinuteTexts, e \in {<<>>, <<"\n">>}}

DescriptionTexts == {<<"a", "b", "c">>,
                    <<" ", " ", " ">>,
                    <<"P", "e", "p", "s", "i", " ", "-", " ", "1", "2", "-", "o", "z">>,
                    <<"D", "o", "r", "i", "t", "o", "s", " ", "&", " ", "D", "i", "p">>,
                    <<"E", "m", "i", "l", "s", " ", "C", "h", "e", "e", "s", "e", " ", "P", "i", "z", "z", "a">>,
                    <<" ", " ", " ", "K", "l", "a", "r", "b", "r", "u", "n", "n", " ", "1", "2", "-", "P", "K", " ", "1", "2", " ", "F", "L", " ", "O", "Z", " ", " ">>,
                    <<>>,
                    <<"a", "b", "\n">>}

PriceTexts == {<<"1", ".", "2", "5">>,
              <<"1", "2", ".", "2", "5">>,
              <<"1", "2", ".", "0", "0">>,
              <<"6", ".", "4", "9">>,
              <<"0", ".", "0", "0">>,
              <<"1", "5", ".", "0", "0">>,
              <<"1", ".", "0">>,
              <<"2", ".", "2">>,
              <<"2", "0", "0", "0", "0", "0", "0", "0", "0", "0", "0", "0", "0", "0", "0", ".", "0", "1">>,
              <<"9", "0", "0", "0", "0", "0", "0", "0", "0", "0", "0", "0", "0", "0", "0", "0", ".", "5", "0">>,
              <<"1", ".", "2", "5", "\n">>,
              <<"5", ".", "0", "0">>,
              <<"4", ".", "9", "9">>,
              <<"5", ".", "0", "1">>,
              <<"0", ".", "0", "1">>,
              <<"9", "9", "9", ".", "9", "9">>,
              <<"-", "1", ".", "0", "0">>,
              <<"1", ".", "2", "5", "0">>}

\* The example with one item, every description with every price
ItemReceipts ==
    {[Example EXCEPT !.items = <<Item(d, p)>>] : d \in DescriptionTexts, p \in PriceTexts}

TotalTexts == {<<"1", ".", "2", "5">>,
              <<"1", "0", "0", ".", "0", "0">>,
              <<"3", "5", ".", "3", "5">>,
              <<"9", ".", "0", "0">>,
              <<"1", ".", "2">>,
              <<"1", ".", "2", "5", "\n">>,
              <<"0", ".", "7", "5">>,
              <<"0", ".", "5", "0">>,
              <<"0", ".", "0", "0">>,
              <<>>,
              <<"1", "2">>}

\* The example with every total, and with four and five copies of an item
TotalReceipts ==
    {[Example EXCEPT !.total = m] : m \in TotalTexts}
    \cup {[Example EXCEPT !.items = <<Pizza, Pepsi, Klarbrunn, Free>>],
          [Example EXCEPT !.items = <<Pizza, Pepsi, Klarbrunn, Free, Blank>>]}

\* The receipts the validator and the scorer are checked on
EngineReceipts ==
    CoreReceipts \cup DateReceipts \cup TimeReceipts \cup ItemReceipts \cup TotalReceipts

Morning == [Example EXCEPT !.purchaseTime = <<"9", ":", "0", "0">>]

Afternoon ==
    Receipt(<<"M", "&", "M", " ", "C", "o", "r", "n", "e", "r", " ", "M", "a", "r", "k", "e", "t">>, <<"2", "0", "2", "2", "-", "0", "3", "-", "2", "0">>, <<"1", "4", ":", "3", "3">>,
            <<Pizza, Blank>>, <<"1", "0", "0", ".", "0", "0">>)

LateHour == [Example EXCEPT !.purchaseTime = <<"2", "5", ":", "0", "0">>]

NoItems == [Example EXCEPT !.items = <<>>]

\* The receipts clients submit to the service
ServiceReceipts == {Example, Afternoon, Morning, LateHour, NoItems}

(***************************************************************************)
(* The service: request handlers run on concurrent worker threads          *)
(***************************************************************************)
Threads == {"w1", "w2"}

\* The values uuid.uuid4() can return in a run
GenIds == 1..MaxRequests

\* An identifier that no uuid.uuid4() call returns
UnknownId == MaxRequests + 1

\* No identifier
NoId == 0 - 1

VARIABLES
    receiptPoints,  \* the dict receiptPoints: identifier -> points
    pc,             \* per thread: where its handler stands
    request,        \* per thread: the receipt a processReceipt call holds
    uniqueId,       \* per thread: processReceipt's local uniqueId
    query,          \* per thread: the id a getPoints call holds
    outcome,        \* per thread: calculatePoint's local points, or its exception
    response,       \* per thread: the last response sent
    issued,         \* identifiers uuid.uuid4() has returned
    returned,       \* identifier -> points of the submit that returned it
    started,        \* requests started
    stored,         \* assignments receiptPoints[uniqueId] = points done
    receipt,        \* the receipt given to the validator and the scorer
    stage,          \* how far that receipt got
    verdict,        \* validateInput's outcome for it
    score           \* calculatePoint's outcome for it

vars == <<receiptPoints, pc, request, uniqueId, query, outcome, response, issued,
          returned, started, stored, receipt, stage, verdict, score>>

serviceVars == <<receiptPoints, pc, request, uniqueId, query, outcome, response, issued,
                 returned, started, stored>>

engineVars == <<receipt, stage, verdict, score>>

NoResponse ==
    [kind |-> "none", code |-> 0, detail |-> "", id |-> NoId, known |-> FALSE,
     points |-> <<>>]

\* HTTPException(status_code=400, ...) out of validateInput
Rejected(v) == [NoResponse EXCEPT !.kind = "error", !.code = 400, !.detail = v.detail]

\* An exception out of calculatePoint: the server answers 500
Crashed(error) == [NoResponse EXCEPT !.kind = "error", !.code = 500, !.detail = error]

\* {"uuid": uniqueId}
UuidResponse(id) == [NoResponse EXCEPT !.kind = "uuid", !.code = 200, !.id = id]

\* HTTPException(status_code=404, detail="Receipt ID not found")
NotFound(q) ==
    [NoResponse EXCEPT !.kind = "error", !.code = 404,
                       !.detail = "Receipt ID not found", !.id = q.id, !.known = q.known]

\* {"points": receiptPoints[id]}
PointsResponse(store, q) ==
    [NoResponse EXCEPT !.kind = "points", !.code = 200, !.id = q.id,
                       !.known = q.known, !.points = store[q.id]]

ReusedIds(used) == GenIds

\* The identifier uuid.uuid4() returns next: a random 122-bit value, taken as
\* never repeating. Which unused value it is makes no difference to any
\* handler, so the least unused one stands for it.
FreshIds(used) == {id \in GenIds \ used : \A k \in GenIds \ used : id <= k}

calculatePointStoresFirst(store, id, result) ==
    [k \in DOMAIN store \cup {id} |->
        IF k # id THEN store[k] ELSE IF result.raised THEN <<>> ELSE result.points]

\* The store when calculatePoint ends with the given outcome: the points are
\* stored by its last statement, so an exception leaves the store as it was
calculatePoint(store, id, result) ==
    IF result.raised THEN store ELSE StorePoints(store, id, result.points)

\* Identifiers held by a processReceipt call that has not answered yet: only
\* that call knows them, so no client can ask for them
InFlight == {uniqueId[t] : t \in {u \in Threads : pc[u] \in {"calculate", "store", "respond"}}}

AllIds == GenIds \cup {UnknownId}

QueryIds == AllIds \ InFlight

NoOutcome == [raised |-> FALSE, error |-> "", points |-> <<>>]

NoQuery == [id |-> NoId, known |-> FALSE]

ServiceInit ==
    /\ receiptPoints = <<>>
    /\ pc = [t \in Threads |-> "idle"]
    /\ request = [t \in Threads |-> Example]
    /\ uniqueId = [t \in Threads |-> NoId]
    /\ query = [t \in Threads |-> NoQuery]
    /\ outcome = [t \in Threads |-> NoOutcome]
    /\ response = [t \in Threads |-> NoResponse]
    /\ issued = {}
    /\ returned = <<>>
    /\ started = 0
    /\ stored = 0

EngineOff ==
    /\ receipt = Example
    /\ stage = "off"
    /\ verdict = Accepted
    /\ score = NoOutcome

NeverRaises(v) == FALSE

\* Whether validateInput's outcome is an exception, which ends processReceipt
Raises(v) == v.code # 200

\* processReceipt, line 42: validateInput(receipt) raises or lets the call go on.
\* The locals of a call that has ended are gone: they are set back to their
\* initial values.
ReceiveSubmit(t, r) ==
    /\ pc[t] = "idle"
    /\ started < MaxRequests
    /\ started' = started + 1
    /\ IF Raises(validateInput(r))
       THEN /\ response' = [response EXCEPT ![t] = Rejected(validateInput(r))]
            /\ UNCHANGED <<pc, request>>
       ELSE /\ pc' = [pc EXCEPT ![t] = "generate"]
            /\ request' = [request EXCEPT ![t] = r]
            /\ response' = response
    /\ UNCHANGED <<outcome, receiptPoints, uniqueId, query, issued, returned, stored>>
    /\ UNCHANGED engineVars

\* processReceipt, line 45: uniqueId = str(uuid.uuid4())
GenerateId(t) ==
    /\ pc[t] = "generate"
    /\ \E id \in FreshIds(issued) :
          /\ uniqueId' = [uniqueId EXCEPT ![t] = id]
          /\ issued' = issued \cup {id}
    /\ pc' = [pc EXCEPT ![t] = "calculate"]
    /\ UNCHANGED <<outcome, receiptPoints, request, query, response, returned, started, stored>>
    /\ UNCHANGED engineVars

\* calculatePoint, lines 97-132: the points are computed in the local points,
\* or an exception ends the call
Calculate(t) ==
    /\ pc[t] = "calculate"
    /\ outcome' = [outcome EXCEPT ![t] = ComputePoints(request[t])]
    /\ pc' = [pc EXCEPT ![t] = "store"]
    /\ UNCHANGED <<receiptPoints, request, uniqueId, query, response, issued,
                   returned, started, stored>>
    /\ UNCHANGED engineVars

\* calculatePoint, line 135: receiptPoints[uniqueId] = points; or the exception
\* leaves processReceipt and the server answers 500
Store(t) ==
    /\ pc[t] = "store"
    /\ receiptPoints' = calculatePoint(receiptPoints, uniqueId[t], outcome[t])
    /\ IF outcome[t].raised
       THEN /\ response' = [response EXCEPT ![t] = Crashed(outcome[t].error)]
            /\ pc' = [pc EXCEPT ![t] = "idle"]
            /\ request' = [request EXCEPT ![t] = Example]
            /\ uniqueId' = [uniqueId EXCEPT ![t] = NoId]
            /\ outcome' = [outcome EXCEPT ![t] = NoOutcome]
            /\ stored' = stored
       ELSE /\ pc' = [pc EXCEPT ![t] = "respond"]
            /\ stored' = stored + 1
            /\ UNCHANGED <<response, request, uniqueId, outcome>>
    /\ UNCHANGED <<query, issued, returned, started>>
    /\ UNCHANGED engineVars

\* processReceipt, line 56: return {"uuid": uniqueId}
Respond(t) ==
    /\ pc[t] = "respond"
    /\ response' = [response EXCEPT ![t] = UuidResponse(uniqueId[t])]
    /\ returned' = IF uniqueId[t] \in DOMAIN returned THEN returned
                   ELSE StorePoints(returned, uniqueId[t], outcome[t].points)
    /\ pc' = [pc EXCEPT ![t] = "idle"]
    /\ request' = [request EXCEPT ![t] = Example]
    /\ uniqueId' = [uniqueId EXCEPT ![t] = NoId]
    /\ outcome' = [outcome EXCEPT ![t] = NoOutcome]
    /\ UNCHANGED <<receiptPoints, query, issued, started, stored>>
    /\ UNCHANGED engineVars

\* getPoints, lines 32-33: if id not in receiptPoints: raise 404
ReceiveQuery(t, id) ==
    /\ pc[t] = "idle"
    /\ id \in QueryIds
    /\ started < MaxRequests
    /\ started' = started + 1
    /\ IF id \notin DOMAIN receiptPoints
       THEN /\ response' = [response EXCEPT ![t] =
                   NotFound([id |-> id, known |-> id \in DOMAIN returned])]
            /\ UNCHANGED <<pc, query>>
       ELSE /\ pc' = [pc EXCEPT ![t] = "read"]
            /\ query' = [query EXCEPT ![t] = [id |-> id, known |-> id \in DOMAIN returned]]
            /\ response' = response
    /\ UNCHANGED <<outcome, receiptPoints, request, uniqueId, issued, returned, stored>>
    /\ UNCHANGED engineVars

\* getPoints, line 34: return {"points": receiptPoints[id]}
ReadPoints(t) ==
    /\ pc[t] = "read"
    /\ response' = [response EXCEPT ![t] = PointsResponse(receiptPoints, query[t])]
    /\ pc' = [pc EXCEPT ![t] = "idle"]
    /\ query' = [query EXCEPT ![t] = NoQuery]
    /\ UNCHANGED <<outcome, receiptPoints, request, uniqueId, issued, returned, started, stored>>
    /\ UNCHANGED engineVars

Init == ServiceInit /\ EngineOff

Next ==
    \E t \in Threads :
        \/ \E r \in ServiceReceipts : ReceiveSubmit(t, r)
        \/ GenerateId(t)
        \/ Calculate(t)
        \/ Store(t)
        \/ Respond(t)
        \/ \E id \in AllIds : ReceiveQuery(t, id)
        \/ ReadPoints(t)

Spec == Init /\ [][Next]_vars

(***************************************************************************)
(* The validator and the scorer applied to one receipt                     *)
(***************************************************************************)
EngineInit ==
    /\ receipt \in EngineReceipts
    /\ stage = "received"
    /\ verdict = Accepted
    /\ score = NoOutcome

\* validateInput(receipt)
Validate ==
    /\ stage = "received"
    /\ verdict' = validateInput(receipt)
    /\ stage' = IF verdict'.code = 200 THEN "validated" ELSE "rejected"
    /\ UNCHANGED <<receipt, score>>
    /\ UNCHANGED serviceVars

\* calculatePoint(...) on the validated receipt
Score ==
    /\ stage = "validated"
    /\ score' = ComputePoints(receipt)
    /\ stage' = IF score'.raised THEN "failed" ELSE "scored"
    /\ UNCHANGED <<receipt, verdict>>
    /\ UNCHANGED serviceVars

EngineNext == Validate \/ Score

EngineStart == EngineInit /\ ServiceInit

EngineSpec == EngineStart /\ [][EngineNext]_vars

(***************************************************************************)
(* Properties of the service                                               *)
(***************************************************************************)
\* C1: once a submit has returned identifier id for a receipt scored p, the
\* entry of id stays in the store with the value p, and every query for id
\* that starts afterwards answers p, whatever other requests run meanwhile.
C1_LookupIsStable ==
    /\ \A id \in DOMAIN returned :
          id \in DOMAIN receiptPoints /\ receiptPoints[id] = returned[id]
    /\ \A t \in Threads :
          response[t].known =>
              /\ response[t].kind = "points"
              /\ response[t].points = returned[response[t].id]

C1_Witness ==
    \E t, u \in Threads :
        /\ response[t].known /\ response[t].kind = "points"
        /\ response[u].kind = "error" /\ response[u].code = 400

C3_ScorerNeverRaises ==
    \A t \in Threads : pc[t] = "store" => ~outcome[t].raised

\* C4: a submit whose receipt fails validation answers with the validation
\* error at once: no identifier is generated or returned, scoring is not
\* entered, and the store is as it was.
C4_FailsClosed ==
    [][\A t \in Threads, r \in ServiceReceipts :
          ReceiveSubmit(t, r) /\ validateInput(r).code # 200 =>
              /\ receiptPoints' = receiptPoints
              /\ issued' = issued /\ outcome' = outcome /\ stored' = stored
              /\ pc'[t] = "idle"
              /\ response'[t].code = 400
              /\ response'[t].detail = validateInput(r).detail
              /\ response'[t].id = NoId]_vars

C4_Witness ==
    \E t, u \in Threads :
        /\ response[t].code = 400
        /\ response[t].detail = "Invalid purchaseTime format. Expected HH:MM."
        /\ response[u].detail = "The receipt must have at least one item."
        /\ receiptPoints # <<>>

\* C10: under every interleaving each store step of a submit adds exactly one
\* entry, under the submit's own identifier, and changes no other entry; with
\* fresh identifiers the number of entries equals the number of submits that
\* succeeded (stored their points), and an identifier is returned only when
\* its entry is in the store.
C10_OneEntryPerSubmit ==
    /\ [](/\ Cardinality(DOMAIN receiptPoints) = stored
          /\ stored = Cardinality(DOMAIN returned)
                        + Cardinality({t \in Threads : pc[t] = "respond"})
          /\ DOMAIN returned \subseteq DOMAIN receiptPoints
          /\ \A t \in Threads :
                response[t].kind = "uuid" => response[t].id \in DOMAIN receiptPoints)
    /\ [][/\ \A id \in DOMAIN receiptPoints :
                id \in DOMAIN receiptPoints' /\ receiptPoints'[id] = receiptPoints[id]
          /\ \A t \in Threads :
                pc[t] = "store" /\ pc'[t] = "respond" =>
                    /\ DOMAIN receiptPoints' = DOMAIN receiptPoints \cup {uniqueId[t]}
                    /\ uniqueId[t] \notin DOMAIN receiptPoints
                    /\ receiptPoints'[uniqueId[t]] = outcome[t].points]_vars

C10_Witness ==
    /\ Cardinality(DOMAIN receiptPoints) = 2
    /\ \A t \in Threads : pc[t] = "respond"

(***************************************************************************)
(* Properties of the validator and the scorer                              *)
(***************************************************************************)
Passed == stage \in {"validated", "scored", "failed"}

\* The checks of a receipt, each with the reason it reports when it fails
Check(passes, detail, value) ==
    [passes |-> passes, reason |-> BadRequest(detail, value)]

FieldChecks(r) ==
    <<Check(RetailerMatch(r.retailer), "Invalid retailer format.", <<>>),
      Check(ParseDate(r.purchaseDate).ok,
            "Invalid purchaseDate format. Expected YYYY-MM-DD.", <<>>),
      Check(TimeMatch(r.purchaseTime),
            "Invalid purchaseTime format. Expected HH:MM.", <<>>),
      Check(r.items # <<>>, "The receipt must have at least one item.", <<>>)>>

DescriptionCheck(item) ==
    Check(DescriptionMatch(item.shortDescription),
          "Invalid item description: ", item.shortDescription)

PriceCheck(item) == Check(DecimalMatch(item.price), "Invalid item price: ", item.price)

TotalCheck(r) == Check(DecimalMatch(r.total), "Invalid total amount format.", <<>>)

\* Every description, then every price
DescriptionsThenPrices(r) ==
    FieldChecks(r)
      \o [i \in 1..Len(r.items) |-> DescriptionCheck(r.items[i])]
      \o [i \in 1..Len(r.items) |-> PriceCheck(r.items[i])]
      \o <<TotalCheck(r)>>

\* Item by item: its description, then its price
ItemByItem(r) ==
    FieldChecks(r)
      \o [k \in 1..(2 * Len(r.items)) |->
            IF k % 2 = 1 THEN DescriptionCheck(r.items[(k + 1) \div 2])
            ELSE PriceCheck(r.items[k \div 2])]
      \o <<TotalCheck(r)>>

\* The reason of the first failing check of a list, Accepted when none fails
FirstFailure(checks) ==
    LET failing == {i \in 1..Len(checks) : ~checks[i].passes}
    IN  IF failing = {} THEN Accepted
        ELSE checks[CHOOSE i \in failing : \A j \in failing : i <= j].reason

\* C5 (as claimed): validateInput reports the first failing check in the order
\* retailer, purchaseDate, purchaseTime, items non-empty, every item's
\* shortDescription, every item's price, total.
C5_DescriptionsBeforePrices ==
    stage # "received" => verdict = FirstFailure(DescriptionsThenPrices(receipt))

\* C5 (amended): validateInput reports the first failing check in the order
\* retailer, purchaseDate, purchaseTime, items non-empty, then item by item in
\* list order (an item's shortDescription before that item's price), total.
C5_FirstFailureItemByItem ==
    stage # "received" => verdict = FirstFailure(ItemByItem(receipt))

C5_Witness ==
    /\ stage = "rejected"
    /\ receipt.items = <<BadPrice, BadDescription>>
    /\ ~DecimalMatch(receipt.total)
    /\ verdict = BadRequest("Invalid item price: ", BadPrice.price)

\* The number a text of decimal digits writes
NumberOf(text) == BigToInt(BigFromDigits(text, <<>>))

\* The text of s before / after the first ":" of s
BeforeColon(s) ==
    Slice(s, 1, (CHOOSE i \in 1..Len(s) : s[i] = ":" /\ \A j \in 1..(i - 1) : s[j] # ":") - 1)

\* The cents of a decimal text: its two digits after the point
CentsOf(s) == LET t == Strip(s) IN NumberOf(Slice(t, Len(t) - 1, Len(t)))

RuleA(r) == Len(SelectSeq(r.retailer, IsAlnum))

RuleB(r) == IF ParseDate(r.purchaseDate).day % 2 = 1 THEN 6 ELSE 0

RuleC(r) ==
    IF NumberOf(BeforeColon(r.purchaseTime)) \in 14..15 THEN 10 ELSE 0

RuleD(r) == 5 * (Len(r.items) \div 2)

\* Rule (e) over the items from position i on; the amount one item earns is
\* the subject of C7
RECURSIVE RuleE(_, _)
RuleE(r, i) ==
    IF i > Len(r.items) THEN <<>>
    ELSE BigAdd(IF Len(Strip(r.items[i].shortDescription)) % 3 = 0
                THEN PriceBonus(r.items[i].price).value ELSE <<>>,
                RuleE(r, i + 1))

RuleF(r) == IF CentsOf(r.total) = 0 THEN 50 ELSE 0

RuleG(r) == IF CentsOf(r.total) \in {0, 25, 50, 75} THEN 25 ELSE 0

RuleSum(r) ==
    BigAddInt(RuleE(r, 1), RuleA(r) + RuleB(r) + RuleC(r) + RuleD(r) + RuleF(r) + RuleG(r))

CeilFifth(cents) ==
    LET qr == BigDivSmall(cents, 500)
    IN  IF qr.r = 0 THEN qr.q ELSE BigAddInt(qr.q, 1)

\* C7: an item whose trimmed description has a length divisible by 3 earns
\* exactly ceil(price * 0.2) = ceil(cents / 500); any other item earns 0.
C7_BonusIsExactCeiling ==
    stage = "scored" =>
        \A i \in 1..Len(receipt.items) :
            ItemBonus(receipt.items[i]).value =
                IF Len(Strip(receipt.items[i].shortDescription)) % 3 = 0
                THEN CeilFifth(PriceCents(receipt.items[i].price))
                ELSE <<>>

\* YYYY-MM-DD: four digits, two digits, two digits, naming a real date
ExactDate(s) ==
    /\ Len(s) = 10
    /\ s[5] = "-" /\ s[8] = "-"
    /\ \A i \in {1, 2, 3, 4, 6, 7, 9, 10} : s[i] \in Digits
    /\ NumberOf(Slice(s, 1, 4)) >= 1
    /\ NumberOf(Slice(s, 6, 7)) \in 1..12
    /\ NumberOf(Slice(s, 9, 10)) \in
          1..DaysInMonth(NumberOf(Slice(s, 1, 4)), NumberOf(Slice(s, 6, 7)))

\* C8: validateInput accepts a purchaseDate only when it is an exact
\* YYYY-MM-DD text naming a real calendar date.
C8_DateIsExact == Passed => ExactDate(receipt.purchaseDate)

\* C9: for every purchaseDate validateInput accepts, the odd-day rule does
\* not raise and adds 6 exactly when the day of the month is odd, else 0.
C9_OddDayRule ==
    Passed =>
        /\ ~OddDayPoints(receipt.purchaseDate).raised
        /\ OddDayPoints(receipt.purchaseDate).points =
              IF ParseDate(receipt.purchaseDate).day % 2 = 1 THEN 6 ELSE 0

C9_Witness ==
    /\ stage = "scored"
    /\ LastTwo(receipt.purchaseDate) = <<"-", "1">>
    /\ OddDayPoints(receipt.purchaseDate).points = 6

=============================================================================
